---- MODULE Spec2Model ----
(***************************************************************************)
(* Model of the boxer scheduler: boxer.Ticker (per-command Step/Interval,  *)
(* one Handler), the cmd/boxer wiring that builds a Ticker from a Config,  *)
(* and the legacy timeboxer.Ticker (one Step/Interval pair, separate       *)
(* StepHandler and IntervalHandler).                                       *)
(*                                                                         *)
(* A time.Time is modelled as a record [abs, loc]: abs is the number of    *)
(* time units since the zero Time (January 1, year 1, 00:00 UTC), loc is   *)
(* the identity of its Location pointer.  Go compares time.Time values     *)
(* with != field by field, so two Times of the same instant in different   *)
(* locations are different values.  A time.Duration is an integer number   *)
(* of the same time units.                                                 *)
(***************************************************************************)
EXTENDS Integers, Sequences, FiniteSets, TLC

VARIABLES
    Commands,     \* Ticker.Commands
    prev,         \* Ticker.prev, the last tick time
    clockLoc,     \* the Location of the Times the clock (Ticker.Now) returns
    now,          \* the value the clock returned to the latest Tick
    lastNow,      \* the value the clock returned to the Tick before that
    tickPrev,     \* Ticker.prev as the latest Tick found it
    calls,        \* handler invocations made by the latest Tick, in order
    log,          \* Logger records written by the latest Tick, in order
    ticks,        \* number of Tick calls so far: 0, 1, or 2 for two or more
    failed,       \* commands whose handler returned an error in an earlier Tick
    soloPrev,     \* soloPrev[k]: prev of a Ticker that holds Commands[k] alone
    soloCalls,    \* soloCalls[k]: invocations made by that Ticker's latest Tick
    legacyPrev,   \* timeboxer.Ticker.prev
    legacyCalls,  \* what the latest Tick of the timeboxer.Ticker invoked
    stepN,        \* TestTicker_Tick: invocations counted by the handler
    intervalN,    \* TestTicker_Tick: invocations with i == 0
    otherN,       \* TestTicker_Tick: invocations with n # 15
    offset,       \* TestTicker_Tick: the loop variable i
    cfg,          \* cmd/boxer: the Config read by Run
    runErr,       \* cmd/boxer: the error Run returned, "" while there is none
    Logger,       \* Ticker.Logger
    clock,        \* Tick step by step: the instant the wall clock shows
    idx,          \* Tick step by step: the command the loop is at, 0 outside it
    reads,        \* Tick step by step: calls of t.Now() made by the current Tick
    running,      \* Tick step by step: commands whose handler has not returned
    tickers,      \* two Tickers side by side: tickers[x] is the x-th Ticker
    alone,        \* alone[x]: the x-th Ticker in a run where no other is polled
    firedBuckets, \* the step buckets of now at the invocations made by the
                  \* Ticks before the latest one
    lastFired,    \* <<i>>, i the step number of the latest of these
                  \* invocations; <<>> if there is none
    cadence,      \* how the clock values of the polls so far followed each other
    files,        \* wallpaper handler: the image files in the work directory
    trace,        \* wallpaper handler: what the latest call called, in order
    ret,          \* wallpaper handler: what the latest call returned
    genArgs,      \* NewWallpaperGenerator: the arguments of the call
    built,        \* NewWallpaperGenerator: <<what it returned>>, <<>> before
    pc            \* position of the driver (test, Run) of the behaviour

coreVars == <<Commands, prev, clockLoc, now, lastNow, tickPrev, calls, log, ticks>>
pairVars == <<failed, soloPrev, soloCalls>>
legacyVars == <<legacyPrev, legacyCalls>>
testVars == <<stepN, intervalN, otherN, offset>>
cmdVars == <<cfg, runErr>>
stepVars == <<Logger, clock, idx, reads, running>>
isoVars == <<tickers, alone>>
histVars == <<firedBuckets, lastFired, cadence>>
genVars == <<genArgs, built>>
wallVars == <<files, trace, ret, genVars>>

vars == <<coreVars, pairVars, legacyVars, testVars, cmdVars, stepVars, isoVars,
          histVars, wallVars, pc>>

----------------------------------------------------------------------------
\* Bounds of the model.

\* Largest instant (in time units since the zero Time) the free clock returns.
MaxTime == 5

\* Largest Interval of a command of the free command lists.
MaxInterval == 3

\* Largest duration a Config gives to a step or an interval.
MaxCfgDur == 1

\* Longest free command list.
MaxCmds == 1

----------------------------------------------------------------------------
\* time.Time and time.Duration

\* Location pointers: nil (UTC, as in time.Time{} and time.Date(..., time.UTC))
\* and &localLoc (as in time.Now()).
Locs == {"UTC", "Local"}

Time == [abs : 0..MaxTime, loc : Locs]

\* time.Time{}: the value of Ticker.prev before the first Tick.
ZeroTime == [abs |-> 0, loc |-> "UTC"]

\* Mutant: Truncate rounds to the nearest multiple of d (halfway values up).
Truncate_Nearest(t, d) ==
    IF d <= 0 THEN t ELSE [t EXCEPT !.abs = ((2 * t.abs + d) \div (2 * d)) * d]

\* Time.Truncate(d): t rounded down to a multiple of d since the zero Time;
\* t itself when d <= 0.  The location is kept.
Truncate(t, d) ==
    IF d <= 0 THEN t ELSE [t EXCEPT !.abs = t.abs - (t.abs % d)]

\* Time.Sub(u): the duration t - u.
Sub(t, u) == t.abs - u.abs

\* Go integer division a / b (b # 0): truncates toward zero.
Quo(a, b) ==
    LET abs(x) == IF x < 0 THEN -x ELSE x
        q == abs(a) \div abs(b)
    IN IF (a < 0) = (b < 0) THEN q ELSE -q

----------------------------------------------------------------------------
\* boxer.Command and the handlers

\* Handler values: nil, or a function.  What a function returns is decided
\* at each invocation.
HandlerNil == "nil"
HandlerFunc == "func"

\* Logger values: what NewTicker sets, log.New(os.Stderr, "", 0), or nil.
LoggerStderr == "stderr"
LoggerNil == "nil"

Command(name, step, interval, handler) ==
    [Name |-> name, Step |-> step, Interval |-> interval, Handler |-> handler]

\* The data-model invariant of a command.
ValidCommand(cmd) ==
    cmd.Interval > 0 /\ (cmd.Step = 0 \/ (cmd.Step > 0 /\ cmd.Step <= cmd.Interval))

\* The commands a caller of the library registers in the free command lists.
CommandPool ==
    { Command("c", s, i, h) : s \in 0..MaxInterval, i \in 1..MaxInterval,
                              h \in {HandlerNil, HandlerFunc} }

ValidPool == { c \in CommandPool : ValidCommand(c) }

SeqsUpTo(S, n) == UNION { [1..k -> S] : k \in 0..n }

----------------------------------------------------------------------------
\* Ticker.Tick

\* Mutant: the step is not initialized to the interval when it is zero.
EffectiveStep_NoDefault(cmd) == cmd.Step

\* step, interval := cmd.Step, cmd.Interval; if step == 0 { step = cmd.Interval }
EffectiveStep(cmd) == IF cmd.Step = 0 THEN cmd.Interval ELSE cmd.Step

\* Mutant: the boundary test compares interval buckets.
Fires_ByInterval(p, t, cmd) ==
    /\ Truncate(p, cmd.Interval) # Truncate(t, cmd.Interval)
    /\ cmd.Handler # HandlerNil

\* Mutant: a Ticker that has never ticked (zero prev) does not fire.
Fires_NotFromZero(p, t, cmd) ==
    /\ p # ZeroTime
    /\ Truncate(p, EffectiveStep(cmd)) # Truncate(t, EffectiveStep(cmd))
    /\ cmd.Handler # HandlerNil

\* Mutant: a clock that went back does not fire.
Fires_ForwardOnly(p, t, cmd) ==
    /\ p.abs <= t.abs
    /\ Truncate(p, EffectiveStep(cmd)) # Truncate(t, EffectiveStep(cmd))
    /\ cmd.Handler # HandlerNil

\* Mutant: any change of the clock value fires.
Fires_EveryChange(p, t, cmd) ==
    /\ p # t
    /\ cmd.Handler # HandlerNil

\* Mutant: the boundary test does not look at the handler.
Fires_NoHandlerCheck(p, t, cmd) ==
    Truncate(p, EffectiveStep(cmd)) # Truncate(t, EffectiveStep(cmd))

\* Mutant: a timer.  After the first firing, a step boundary fires only when
\* a whole step has elapsed since prev.
Fires_Elapsed(p, t, cmd) ==
    /\ Truncate(p, EffectiveStep(cmd)) # Truncate(t, EffectiveStep(cmd))
    /\ (p = ZeroTime \/ Sub(t, p) >= EffectiveStep(cmd))
    /\ cmd.Handler # HandlerNil

\* t.prev.Truncate(step) != now.Truncate(step) && cmd.Handler != nil
Fires(p, t, cmd) ==
    /\ Truncate(p, EffectiveStep(cmd)) # Truncate(t, EffectiveStep(cmd))
    /\ cmd.Handler # HandlerNil

\* Mutant: steps are numbered from 1.
StepIndex_OneBased(t, cmd) ==
    LET step == EffectiveStep(cmd)
    IN IF step = 0 THEN 0
       ELSE Quo(Sub(Truncate(t, step), Truncate(t, cmd.Interval)), step) + 1

\* i: the current step number.
StepIndex(t, cmd) ==
    LET step == EffectiveStep(cmd)
    IN IF step = 0 THEN 0
       ELSE Quo(Sub(Truncate(t, step), Truncate(t, cmd.Interval)), step)

\* n: the total number of steps.
StepCount(cmd) ==
    LET step == EffectiveStep(cmd)
    IN IF step = 0 THEN 1 ELSE Quo(cmd.Interval, step)

\* Mutant: the handler is told the step that follows the one of prev (the
\* first step that was skipped) instead of the step of now.
TickCommand_Replay(st, cmd, k, t, errs) ==
    IF Fires(st.prev, t, cmd)
    THEN LET step == EffectiveStep(cmd)
             next == [t EXCEPT !.abs = Truncate(st.prev, step).abs + step]
             call == [cmd |-> k, i |-> StepIndex(next, cmd), n |-> StepCount(cmd),
                      err |-> errs[k]]
         IN [st EXCEPT !.calls = Append(@, call),
                       !.log = IF errs[k]
                               THEN Append(@, [name |-> cmd.Name, cmd |-> k])
                               ELSE @]
    ELSE st

\* Mutant: prev is set as soon as a handler has been invoked.
TickCommand_SetsPrev(st, cmd, k, t, errs) ==
    IF Fires(st.prev, t, cmd)
    THEN LET call == [cmd |-> k, i |-> StepIndex(t, cmd), n |-> StepCount(cmd),
                      err |-> errs[k]]
         IN [st EXCEPT !.prev = t,
                       !.calls = Append(@, call),
                       !.log = IF errs[k]
                               THEN Append(@, [name |-> cmd.Name, cmd |-> k])
                               ELSE @]
    ELSE st

\* Mutant: the step number is counted from the start of the interval of
\* prev instead of the interval of now.
TickCommand_FromPrev(st, cmd, k, t, errs) ==
    IF Fires(st.prev, t, cmd)
    THEN LET step == EffectiveStep(cmd)
             i == Quo(Sub(Truncate(t, step), Truncate(st.prev, cmd.Interval)), step)
             call == [cmd |-> k, i |-> i, n |-> StepCount(cmd), err |-> errs[k]]
         IN [st EXCEPT !.calls = Append(@, call),
                       !.log = IF errs[k]
                               THEN Append(@, [name |-> cmd.Name, cmd |-> k])
                               ELSE @]
    ELSE st

\* The body of the loop for the k-th command.  st is the state of the call:
\* the Ticker's prev, the invocations made and the records logged so far.
\* errs[k] says whether the handler of the k-th command returns an error
\* when it is invoked in this Tick.
TickCommand(st, cmd, k, t, errs) ==
    IF Fires(st.prev, t, cmd)
    THEN LET call == [cmd |-> k, i |-> StepIndex(t, cmd), n |-> StepCount(cmd),
                      err |-> errs[k]]
         IN [st EXCEPT !.calls = Append(@, call),
                       !.log = IF errs[k]
                               THEN Append(@, [name |-> cmd.Name, cmd |-> k])
                               ELSE @]
    ELSE st

\* Mutant: the loop is left when a handler has returned an error.
RECURSIVE TickLoop_StopOnError(_, _, _, _, _)
TickLoop_StopOnError(st, cmds, k, t, errs) ==
    IF k > Len(cmds) \/ (\E j \in 1..Len(st.calls) : st.calls[j].err) THEN st
    ELSE TickLoop_StopOnError(TickCommand(st, cmds[k], k, t, errs), cmds, k + 1, t, errs)

\* for _, cmd := range t.Commands { ... }, from the k-th command on.
RECURSIVE TickLoop(_, _, _, _, _)
TickLoop(st, cmds, k, t, errs) ==
    IF k > Len(cmds) THEN st
    ELSE TickLoop(TickCommand(st, cmds[k], k, t, errs), cmds, k + 1, t, errs)

\* Mutant: prev is not set at the end of Tick.
TickResult_KeepPrev(cmds, p, t, errs) ==
    TickLoop([prev |-> p, calls |-> <<>>, log |-> <<>>], cmds, 1, t, errs)

\* Mutant: prev is left as it was when a handler has returned an error, so
\* that the next Tick tries again.
TickResult_RetryOnError(cmds, p, t, errs) ==
    LET st == TickLoop([prev |-> p, calls |-> <<>>, log |-> <<>>], cmds, 1, t, errs)
    IN IF \E j \in 1..Len(st.calls) : st.calls[j].err THEN st ELSE [st EXCEPT !.prev = t]

\* The whole of Tick on a Ticker with commands cmds and last tick time p,
\* when the clock returns t: the loop, then t.prev = now.
TickResult(cmds, p, t, errs) ==
    LET st == TickLoop([prev |-> p, calls |-> <<>>, log |-> <<>>], cmds, 1, t, errs)
    IN [st EXCEPT !.prev = t]

ErrChoices(cmds) == [1..Len(cmds) -> BOOLEAN]

\* The results Tick can have, one for each way the invoked handlers return.
TickResults(cmds, p, t) == { TickResult(cmds, p, t, errs) : errs \in ErrChoices(cmds) }

\* The Time the clock returns at instant a.
ClockTime(a) == [abs |-> a, loc |-> clockLoc]

\* Mutant: the loop stores the step it has defaulted back into the command.
TickCore_StoresStep(t, r) ==
    /\ prev' = r.prev
    /\ calls' = r.calls
    /\ log' = r.log
    /\ now' = t
    /\ lastNow' = now
    /\ tickPrev' = prev
    /\ ticks' = IF ticks < 2 THEN ticks + 1 ELSE 2
    /\ Commands' = [k \in 1..Len(Commands) |->
                       [Commands[k] EXCEPT !.Step = EffectiveStep(Commands[k])]]
    /\ UNCHANGED clockLoc

\* The effect of one Tick with result r, the clock having returned t, on the
\* Ticker and on the record of its latest Tick.
TickCore(t, r) ==
    /\ prev' = r.prev
    /\ calls' = r.calls
    /\ log' = r.log
    /\ now' = t
    /\ lastNow' = now
    /\ tickPrev' = prev
    /\ ticks' = IF ticks < 2 THEN ticks + 1 ELSE 2
    /\ UNCHANGED <<Commands, clockLoc>>

\* boxer.NewTicker(): no commands, the zero prev, nothing ticked yet.
NewTicker ==
    /\ prev = ZeroTime
    /\ now = ZeroTime
    /\ lastNow = ZeroTime
    /\ tickPrev = ZeroTime
    /\ calls = <<>>
    /\ log = <<>>
    /\ ticks = 0

\* The parts of the state a behaviour does not use.
NoPair == failed = {} /\ soloPrev = <<>> /\ soloCalls = <<>>
NoLegacy == legacyPrev = ZeroTime /\ legacyCalls = [interval |-> 0, step |-> <<>>]
NoTest == stepN = 0 /\ intervalN = 0 /\ otherN = 0 /\ offset = 0
NoCmd == cfg = <<>> /\ runErr = ""
NoSteps == Logger = LoggerStderr /\ clock = 0 /\ idx = 0 /\ reads = 0 /\ running = {}
NoIso == tickers = <<>> /\ alone = <<>>
NoHist == firedBuckets = {} /\ lastFired = <<>> /\ cadence = "fine"
NoGen == genArgs = <<>> /\ built = <<>>
NoWall == files = {} /\ trace = <<>> /\ ret = <<>> /\ NoGen

----------------------------------------------------------------------------
\* Spec: a Ticker used as a library.  boxer.NewTicker(), Commands appended by
\* the caller (any list of valid commands), Now replaced by a clock the
\* caller controls, which returns any instant at each Tick.

Init ==
    /\ NewTicker
    /\ Commands \in SeqsUpTo(ValidPool, MaxCmds)
    /\ clockLoc \in Locs
    /\ NoPair /\ NoLegacy /\ NoTest /\ NoSteps /\ NoIso /\ NoHist /\ NoWall /\ NoCmd
    /\ pc = "free"

\* One call of Tick during which the clock returns instant a.
Tick(a) ==
    /\ pc = "free"
    /\ \E r \in TickResults(Commands, prev, ClockTime(a)) : TickCore(ClockTime(a), r)
    /\ UNCHANGED <<pairVars, legacyVars, testVars, cmdVars, stepVars, isoVars, pc>>
    /\ UNCHANGED <<histVars, wallVars>>

Next == \E a \in 0..MaxTime : Tick(a)

Spec == Init /\ [][Next]_vars

----------------------------------------------------------------------------
\* SpecBoundary: TestTicker_Tick.  One time unit is 10 seconds.

\* 1 * time.Minute
TestStep == 6

\* 15 * time.Minute
TestInterval == 90

\* 1 * time.Hour, the span of the loop
TestSpan == 360

\* time.Date(2000, time.January, 1, 0, 0, 0, 0, time.UTC) is a whole number of
\* days after the zero Time; the model takes the start of day 1 (8640 units),
\* which has the same position in every step and interval bucket.
T0 == 8640

TestNow(i) == [abs |-> T0 + i, loc |-> "UTC"]

InitBoundary ==
    /\ NewTicker
    /\ Commands = <<Command("", TestStep, TestInterval, HandlerFunc)>>
    /\ clockLoc = "UTC"
    /\ NoPair /\ NoLegacy /\ NoTest /\ NoSteps /\ NoIso /\ NoHist /\ NoWall /\ NoCmd
    /\ pc = "initial"

\* The test's handler: stepN++; if i == 0 { intervalN++ }; return nil.
TestHandler(cs) ==
    /\ stepN' = stepN + Len(cs)
    /\ intervalN' = intervalN + Cardinality({ j \in 1..Len(cs) : cs[j].i = 0 })
    /\ otherN' = otherN + Cardinality({ j \in 1..Len(cs) : cs[j].n # 15 })

\* A Tick of the test at T0 + i; the handler returns nil.
TestTick(i) ==
    LET r == TickResult(Commands, prev, TestNow(i), [k \in 1..Len(Commands) |-> FALSE])
    IN TickCore(TestNow(i), r) /\ TestHandler(r.calls)

\* ticker.Tick(), the initial tick.
TestInitialTick ==
    /\ pc = "initial"
    /\ TestTick(0)
    /\ offset' = 0
    /\ pc' = "loop"
    /\ UNCHANGED <<pairVars, legacyVars, cmdVars, stepVars, isoVars>>
    /\ UNCHANGED <<histVars, wallVars>>

\* for i := 0; i <= 1*time.Hour; i += 10*time.Second { now = start.Add(i); ticker.Tick() }
TestLoopTick ==
    /\ pc = "loop"
    /\ offset <= TestSpan
    /\ TestTick(offset)
    /\ offset' = offset + 1
    /\ UNCHANGED <<pairVars, legacyVars, cmdVars, stepVars, isoVars, pc>>
    /\ UNCHANGED <<histVars, wallVars>>

\* The loop ends; the test compares the counters.
TestLoopEnd ==
    /\ pc = "loop"
    /\ offset > TestSpan
    /\ pc' = "done"
    /\ UNCHANGED <<coreVars, pairVars, legacyVars, testVars, cmdVars, stepVars, isoVars>>
    /\ UNCHANGED <<histVars, wallVars>>

NextBoundary == TestInitialTick \/ TestLoopTick \/ TestLoopEnd

SpecBoundary == InitBoundary /\ [][NextBoundary]_vars

----------------------------------------------------------------------------
\* SpecPair: a Ticker with two commands, and next to it, for each of the two,
\* a Ticker that holds that command alone.  All three read the same clock
\* value at each poll.

\* The commands of the pairs: valid, with a handler.
PairPool == { c \in ValidPool : c.Handler = HandlerFunc }

InitPair ==
    /\ NewTicker
    /\ \E a \in PairPool, b \in PairPool : Commands = <<a, b>>
    /\ clockLoc \in Locs
    /\ failed = {}
    /\ soloPrev = <<ZeroTime, ZeroTime>>
    /\ soloCalls = << <<>>, <<>> >>
    /\ NoLegacy /\ NoTest /\ NoSteps /\ NoIso /\ NoHist /\ NoWall /\ NoCmd
    /\ pc = "pair"

\* One poll: Tick on the Ticker with both commands and on the two Tickers
\* with one command each, the clock returning instant a to all of them.
PairTick(a) ==
    /\ pc = "pair"
    /\ \E errs \in ErrChoices(Commands) :
         LET t == ClockTime(a)
             solo(k) == TickResult(<<Commands[k]>>, soloPrev[k], t, <<errs[k]>>)
         IN /\ TickCore(t, TickResult(Commands, prev, t, errs))
            /\ soloPrev' = [k \in 1..2 |-> solo(k).prev]
            /\ soloCalls' = [k \in 1..2 |-> solo(k).calls]
    /\ UNCHANGED <<failed, legacyVars, testVars, cmdVars, stepVars, isoVars, pc>>
    /\ UNCHANGED <<histVars, wallVars>>

NextPair == \E a \in 0..MaxTime : PairTick(a)

SpecPair == InitPair /\ [][NextPair]_vars

----------------------------------------------------------------------------
\* SpecFail: a Ticker with two commands whose handlers may return an error at
\* any invocation; the commands that have failed are remembered.

InitFail ==
    /\ NewTicker
    /\ \E a \in PairPool, b \in PairPool : Commands = <<a, b>>
    /\ clockLoc \in Locs
    /\ NoPair /\ NoLegacy /\ NoTest /\ NoSteps /\ NoIso /\ NoHist /\ NoWall /\ NoCmd
    /\ pc = "fail"

\* The commands whose handler returned an error in the invocations cs.
Failing(cs) == { cs[j].cmd : j \in { x \in 1..Len(cs) : cs[x].err } }

\* One call of Tick during which the clock returns instant a.
FailTick(a) ==
    /\ pc = "fail"
    /\ \E r \in TickResults(Commands, prev, ClockTime(a)) : TickCore(ClockTime(a), r)
    /\ failed' = failed \cup Failing(calls)
    /\ UNCHANGED <<soloPrev, soloCalls, legacyVars, testVars, cmdVars, stepVars, isoVars, pc>>
    /\ UNCHANGED <<histVars, wallVars>>

NextFail == \E a \in 0..MaxTime : FailTick(a)

SpecFail == InitFail /\ [][NextFail]_vars

----------------------------------------------------------------------------
\* SpecNil: a Ticker with two commands of which at least one has no handler
\* (Command{Name: ..., Interval: ...} with the Handler field left nil).

NilPairs ==
    { cs \in [1..2 -> ValidPool] : \E k \in 1..2 : cs[k].Handler = HandlerNil }

InitNil ==
    /\ NewTicker
    /\ Commands \in NilPairs
    /\ clockLoc \in Locs
    /\ NoPair /\ NoLegacy /\ NoTest /\ NoSteps /\ NoIso /\ NoHist /\ NoWall /\ NoCmd
    /\ pc = "nil"

\* One call of Tick during which the clock returns instant a.
NilTick(a) ==
    /\ pc = "nil"
    /\ \E r \in TickResults(Commands, prev, ClockTime(a)) : TickCore(ClockTime(a), r)
    /\ UNCHANGED <<pairVars, legacyVars, testVars, cmdVars, stepVars, isoVars, pc>>
    /\ UNCHANGED <<histVars, wallVars>>

NextNil == \E a \in 0..MaxTime : NilTick(a)

SpecNil == InitNil /\ [][NextNil]_vars

----------------------------------------------------------------------------
\* SpecRun: the whole run of a Ticker with one command, polled at any clock
\* values.  Next to the Ticker the run remembers in which step buckets the
\* handler was invoked, the step number of the latest invocation, and how the
\* clock values of the polls followed each other.

\* "fine": no poll read an earlier value than the poll before it, nor a value
\* more than one step after it.  "monotone": no poll read an earlier value.
\* "any": the clock went back.
Cadences == {"fine", "monotone", "any"}

\* The cadence of a run of cadence c after a poll that read instant a, the
\* poll before having read instant b; step is the command's step.
NextCadence(c, b, a, step) ==
    IF a < b \/ c = "any" THEN "any"
    ELSE IF a - b > step \/ c = "monotone" THEN "monotone"
    ELSE "fine"

InitRun ==
    /\ NewTicker
    /\ \E c \in PairPool : Commands = <<c>>
    /\ clockLoc \in Locs
    /\ firedBuckets = {} /\ lastFired = <<>> /\ cadence = "fine"
    /\ NoPair /\ NoLegacy /\ NoTest /\ NoSteps /\ NoIso /\ NoWall /\ NoCmd
    /\ pc = "polling"

\* One call of Tick during which the clock returns instant a.  The
\* invocation of the Tick before it, if it made one, becomes part of the
\* past.
RunPoll(a) ==
    /\ pc = "polling"
    /\ \E r \in TickResults(Commands, prev, ClockTime(a)) : TickCore(ClockTime(a), r)
    /\ firedBuckets' = IF calls # <<>>
                       THEN firedBuckets \cup {now.abs \div EffectiveStep(Commands[1])}
                       ELSE firedBuckets
    /\ lastFired' = IF calls # <<>> THEN <<calls[1].i>> ELSE lastFired
    /\ cadence' = IF ticks = 0 THEN cadence
                  ELSE NextCadence(cadence, now.abs, a, EffectiveStep(Commands[1]))
    /\ UNCHANGED <<pairVars, legacyVars, testVars, cmdVars, stepVars, isoVars, pc>>
    /\ UNCHANGED wallVars

NextRun == \E a \in 0..MaxTime : RunPoll(a)

SpecRun == InitRun /\ [][NextRun]_vars

----------------------------------------------------------------------------
\* SpecLegacy: the timeboxer.Ticker (one Step and Interval, a StepHandler and
\* an IntervalHandler, both set) next to a boxer.Ticker with one command of
\* the same Step and Interval.  Both read the same clock value at each poll.

\* timeboxer: Ticker.Tick on a Ticker with last tick time p, when the clock
\* returns t.  interval: invocations of IntervalHandler; step: the arguments
\* of the invocations of StepHandler.
LegacyTickResult(p, t, step, interval) ==
    [prev |-> t,
     interval |-> IF Truncate(p, interval) # Truncate(t, interval) THEN 1 ELSE 0,
     step |-> IF Truncate(p, step) # Truncate(t, step)
              THEN << <<Quo(Sub(Truncate(t, step), Truncate(t, interval)), step),
                        Quo(interval, step)>> >>
              ELSE <<>>]

InitLegacy ==
    /\ NewTicker
    /\ \E c \in PairPool :
          /\ c.Step > 0 /\ c.Interval % c.Step = 0
          /\ Commands = <<c>>
    /\ clockLoc \in Locs
    /\ NoPair /\ NoLegacy /\ NoTest /\ NoSteps /\ NoIso /\ NoHist /\ NoWall /\ NoCmd
    /\ pc = "legacy"

\* One poll of both Tickers, the clock returning instant a.
LegacyTick(a) ==
    /\ pc = "legacy"
    /\ \E r \in TickResults(Commands, prev, ClockTime(a)) : TickCore(ClockTime(a), r)
    /\ LET r == LegacyTickResult(legacyPrev, ClockTime(a),
                                 Commands[1].Step, Commands[1].Interval)
       IN /\ legacyPrev' = r.prev
          /\ legacyCalls' = [interval |-> r.interval, step |-> r.step]
    /\ UNCHANGED <<pairVars, testVars, cmdVars, stepVars, isoVars, pc>>
    /\ UNCHANGED <<histVars, wallVars>>

NextLegacy == \E a \in 0..MaxTime : LegacyTick(a)

SpecLegacy == InitLegacy /\ [][NextLegacy]_vars

----------------------------------------------------------------------------
\* SpecConfig: cmd/boxer.  Main.Run reads a Config, builds the Ticker from it
\* with NewTicker(config, exec) and ticks forever.  The clock is time.Now.

\* NewConfig(): the step and intervals of the default configuration, in
\* minutes.
DefaultWallpaperStep == 1
DefaultWallpaperInterval == 15
DefaultMenuBarInterval == 15
DefaultAnnouncementInterval == 30

\* The durations a configuration file can give: time.ParseDuration accepts
\* negative and zero durations.
CfgDurations == -1..MaxCfgDur

\* What building the wallpaper generator from the configured times and
\* colours comes to: "" when it succeeds, or the error NewTicker returns.
WallpaperFaults ==
    {"", "parse wallpaper time", "parse wallpaper foreground",
     "parse wallpaper background", "wallpaper generator"}

\* What happens in Run before NewTicker: "" when nothing fails.
SetupFaults == {"", "read config", "temp dir"}

\* The configurations: a module that is not enabled keeps the durations of
\* NewConfig().
Configs ==
    LET wallpapers ==
            { [Enabled |-> FALSE, Step |-> DefaultWallpaperStep,
               Interval |-> DefaultWallpaperInterval, Fault |-> ""] }
            \cup [Enabled : {TRUE}, Step : CfgDurations, Interval : CfgDurations,
                  Fault : WallpaperFaults]
        announcements ==
            { [Enabled |-> FALSE, Interval |-> DefaultAnnouncementInterval] }
            \cup [Enabled : {TRUE}, Interval : CfgDurations]
        menuBars ==
            { [Enabled |-> FALSE, Interval |-> DefaultMenuBarInterval] }
            \cup [Enabled : {TRUE}, Interval : CfgDurations]
    IN [Wallpaper : wallpapers, Announcement : announcements, MenuBar : menuBars]

\* Mutant: the commands are appended in the order of the fields of Config
\* (wallpaper, menu_bar, announcement).
NewTickerFromConfig_FieldOrder(c) ==
    LET wallpaper ==
            IF c.Wallpaper.Enabled
            THEN <<Command("wallpaper", c.Wallpaper.Step, c.Wallpaper.Interval,
                           HandlerFunc)>>
            ELSE <<>>
        announcement ==
            IF c.Announcement.Enabled
            THEN <<Command("announcement", 0, c.Announcement.Interval, HandlerFunc)>>
            ELSE <<>>
        menuBar ==
            IF c.MenuBar.Enabled
            THEN <<Command("menu_bar", 0, c.MenuBar.Interval, HandlerFunc)>>
            ELSE <<>>
    IN IF c.Wallpaper.Enabled /\ c.Wallpaper.Fault # ""
       THEN [err |-> c.Wallpaper.Fault, Commands |-> <<>>]
       ELSE [err |-> "", Commands |-> wallpaper \o menuBar \o announcement]

\* cmd/boxer NewTicker(c, exec): the error it returns ("" for nil) and the
\* commands of the Ticker it returns.
NewTickerFromConfig(c) ==
    LET wallpaper ==
            IF c.Wallpaper.Enabled
            THEN <<Command("wallpaper", c.Wallpaper.Step, c.Wallpaper.Interval,
                           HandlerFunc)>>
            ELSE <<>>
        announcement ==
            IF c.Announcement.Enabled
            THEN <<Command("announcement", 0, c.Announcement.Interval, HandlerFunc)>>
            ELSE <<>>
        menuBar ==
            IF c.MenuBar.Enabled
            THEN <<Command("menu_bar", 0, c.MenuBar.Interval, HandlerFunc)>>
            ELSE <<>>
    IN IF c.Wallpaper.Enabled /\ c.Wallpaper.Fault # ""
       THEN [err |-> c.Wallpaper.Fault, Commands |-> <<>>]
       ELSE [err |-> "", Commands |-> wallpaper \o announcement \o menuBar]

InitConfig ==
    /\ NewTicker
    /\ Commands = <<>>
    /\ clockLoc = "Local"
    /\ cfg \in [Config : Configs, Setup : SetupFaults]
    /\ runErr = ""
    /\ NoPair /\ NoLegacy /\ NoTest /\ NoSteps /\ NoIso /\ NoHist /\ NoWall
    /\ pc = "run"

\* Mutant: a ticker that cannot be created is not fatal, Run goes on to the
\* loop with an empty ticker.
RunSetup_IgnoreError ==
    /\ pc = "run"
    /\ LET t == NewTickerFromConfig(cfg.Config)
       IN IF cfg.Setup # ""
          THEN runErr' = cfg.Setup /\ pc' = "returned" /\ UNCHANGED Commands
          ELSE runErr' = "" /\ pc' = "ticking" /\ Commands' = t.Commands
    /\ UNCHANGED <<prev, clockLoc, now, lastNow, tickPrev, calls, log, ticks>>
    /\ UNCHANGED <<pairVars, legacyVars, testVars, stepVars, isoVars, cfg>>
    /\ UNCHANGED <<histVars, wallVars>>

\* Run up to the loop: read the configuration, make the work directory,
\* create the ticker.  Any failure is returned.
RunSetup ==
    /\ pc = "run"
    /\ LET t == NewTickerFromConfig(cfg.Config)
       IN IF cfg.Setup # ""
          THEN runErr' = cfg.Setup /\ pc' = "returned" /\ UNCHANGED Commands
          ELSE IF t.err # ""
          THEN runErr' = "cannot create ticker" /\ pc' = "returned" /\ UNCHANGED Commands
          ELSE runErr' = "" /\ pc' = "ticking" /\ Commands' = t.Commands
    /\ UNCHANGED <<prev, clockLoc, now, lastNow, tickPrev, calls, log, ticks>>
    /\ UNCHANGED <<pairVars, legacyVars, testVars, stepVars, isoVars, cfg>>
    /\ UNCHANGED <<histVars, wallVars>>

\* Mutant: the loop is left when a handler has returned an error.
RunTick_ReturnOnError(a) ==
    /\ pc = "ticking"
    /\ \E r \in TickResults(Commands, prev, ClockTime(a)) :
           /\ TickCore(ClockTime(a), r)
           /\ pc' = IF r.log # <<>> THEN "returned" ELSE "sleeping"
    /\ UNCHANGED <<pairVars, legacyVars, testVars, cmdVars, stepVars, isoVars>>
    /\ UNCHANGED <<histVars, wallVars>>

\* The first statement of the loop body: ticker.Tick().
RunTick(a) ==
    /\ pc = "ticking"
    /\ pc' = "sleeping"
    /\ \E r \in TickResults(Commands, prev, ClockTime(a)) : TickCore(ClockTime(a), r)
    /\ UNCHANGED <<pairVars, legacyVars, testVars, cmdVars, stepVars, isoVars>>
    /\ UNCHANGED <<histVars, wallVars>>

\* The second statement: time.Sleep(m.TickInterval) ends, and the loop goes
\* round.
RunSleep ==
    /\ pc = "sleeping"
    /\ pc' = "ticking"
    /\ UNCHANGED <<coreVars, pairVars, legacyVars, testVars, cmdVars, stepVars, isoVars>>
    /\ UNCHANGED <<histVars, wallVars>>

NextConfig == RunSetup \/ (\E a \in 0..MaxTime : RunTick(a)) \/ RunSleep

SpecConfig == InitConfig /\ [][NextConfig]_vars

\* The call of Tick in the loop returns.  Under NextConfig the steps from
\* "ticking" to "sleeping" are the steps of RunTick, which is enabled
\* whenever Run is at the call.
TickReturns ==
    /\ pc = "ticking"
    /\ pc' = "sleeping"
    /\ UNCHANGED <<cfg, Commands>>

\* SpecConfigLive: SpecConfig where the goroutine of Run keeps running: the
\* statements before the loop are executed, and in the loop every Tick
\* returns (its handlers return) and every time.Sleep ends, so that the next
\* round is started.
SpecConfigLive ==
    /\ InitConfig
    /\ [][NextConfig]_vars
    /\ WF_pc(RunSetup)
    /\ WF_pc(TickReturns)
    /\ WF_pc(RunSleep)

----------------------------------------------------------------------------
\* SpecSteps: Tick statement by statement, on a Ticker with two commands.
\* Every handler invocation is a step of its own.  The wall clock moves, to
\* any instant, between two Ticks (TickBegin) and while a handler runs
\* (ClockMove); Now is time.Now, as NewTicker sets it.  The Ticker's Logger
\* is the one of NewTicker or has been set to nil by the caller.

Loggers == {LoggerStderr, LoggerNil}

InitSteps ==
    /\ NewTicker
    /\ \E a \in PairPool, b \in PairPool : Commands = <<a, b>>
    /\ clockLoc = "Local"
    /\ Logger \in Loggers
    /\ clock = 0
    /\ idx = 0 /\ reads = 0 /\ running = {}
    /\ NoPair /\ NoLegacy
    /\ NoTest /\ NoIso /\ NoCmd /\ NoHist /\ NoWall
    /\ pc = "idle"

\* The wall clock moves to instant a while a handler runs.
ClockMove(a) ==
    /\ pc = "handler"
    /\ a # clock
    /\ clock' = a
    /\ UNCHANGED <<coreVars, pairVars, legacyVars, testVars, cmdVars, isoVars>>
    /\ UNCHANGED <<histVars, wallVars>>
    /\ UNCHANGED <<Logger, idx, reads, running, pc>>

\* The caller calls Tick when the wall clock has moved to instant a:
\* now := t.Now().  A Tick can also follow one that panicked, when the caller
\* has recovered.
TickBegin(a) ==
    /\ pc \in {"idle", "panicked"}
    /\ clock' = a
    /\ now' = ClockTime(a)
    /\ reads' = 1
    /\ idx' = 1
    /\ calls' = <<>>
    /\ log' = <<>>
    /\ running' = {}
    /\ lastNow' = now
    /\ tickPrev' = prev
    /\ ticks' = IF ticks < 2 THEN ticks + 1 ELSE 2
    /\ pc' = "loop"
    /\ UNCHANGED <<Commands, prev, clockLoc, Logger>>
    /\ UNCHANGED <<pairVars, legacyVars, testVars, cmdVars, isoVars>>
    /\ UNCHANGED <<histVars, wallVars>>

\* Mutant: the loop body calls t.Now() again for each command.
TickEval_Reread ==
    /\ pc = "loop"
    /\ idx <= Len(Commands)
    /\ LET cmd == Commands[idx]
           t == ClockTime(clock)
       IN /\ now' = t
          /\ reads' = reads + 1
          /\ IF Fires(prev, t, cmd)
             THEN /\ calls' = Append(calls, [cmd |-> idx, i |-> StepIndex(t, cmd),
                                             n |-> StepCount(cmd), err |-> FALSE])
                  /\ running' = running \cup {idx}
                  /\ pc' = "handler"
                  /\ UNCHANGED idx
             ELSE /\ idx' = idx + 1
                  /\ UNCHANGED <<calls, running, pc>>
    /\ UNCHANGED <<Commands, prev, clockLoc, lastNow, tickPrev, log, ticks>>
    /\ UNCHANGED <<Logger, clock>>
    /\ UNCHANGED <<pairVars, legacyVars, testVars, cmdVars, isoVars>>
    /\ UNCHANGED <<histVars, wallVars>>

\* Mutant: the handler is started and the loop goes on without waiting for it
\* (go cmd.Handler(i, n)).
TickEval_Async ==
    /\ pc = "loop"
    /\ idx <= Len(Commands)
    /\ LET cmd == Commands[idx]
       IN IF Fires(prev, now, cmd)
          THEN /\ calls' = Append(calls, [cmd |-> idx, i |-> StepIndex(now, cmd),
                                          n |-> StepCount(cmd), err |-> FALSE])
               /\ running' = running \cup {idx}
          ELSE UNCHANGED <<calls, running>>
    /\ idx' = idx + 1
    /\ UNCHANGED <<Commands, prev, clockLoc, now, lastNow, tickPrev, log, ticks>>
    /\ UNCHANGED <<Logger, clock, reads, pc>>
    /\ UNCHANGED <<pairVars, legacyVars, testVars, cmdVars, isoVars>>
    /\ UNCHANGED <<histVars, wallVars>>

\* The loop body for the command at idx, up to the call of its handler: the
\* boundary test on t.prev and now, the step number and count, cmd.Handler(i, n).
TickEval ==
    /\ pc = "loop"
    /\ idx <= Len(Commands)
    /\ LET cmd == Commands[idx]
       IN IF Fires(prev, now, cmd)
          THEN /\ calls' = Append(calls, [cmd |-> idx, i |-> StepIndex(now, cmd),
                                          n |-> StepCount(cmd), err |-> FALSE])
               /\ running' = running \cup {idx}
               /\ pc' = "handler"
               /\ UNCHANGED idx
          ELSE /\ idx' = idx + 1
               /\ UNCHANGED <<calls, running, pc>>
    /\ UNCHANGED <<Commands, prev, clockLoc, now, lastNow, tickPrev, log, ticks>>
    /\ UNCHANGED <<Logger, clock, reads>>
    /\ UNCHANGED <<pairVars, legacyVars, testVars, cmdVars, isoVars>>
    /\ UNCHANGED <<histVars, wallVars>>

\* Mutant: prev is set as soon as a handler has returned.
HandlerReturn_SetsPrev(err) ==
    /\ pc = "handler"
    /\ running' = running \ {idx}
    /\ calls' = [calls EXCEPT ![Len(calls)].err = err]
    /\ prev' = now
    /\ IF err /\ Logger = LoggerNil
       THEN /\ pc' = "panicked"
            /\ UNCHANGED <<idx, log>>
       ELSE /\ pc' = "loop"
            /\ idx' = idx + 1
            /\ log' = IF err
                      THEN Append(log, [name |-> Commands[idx].Name, cmd |-> idx])
                      ELSE log
    /\ UNCHANGED <<Commands, clockLoc, now, lastNow, tickPrev, ticks>>
    /\ UNCHANGED <<Logger, clock, reads>>
    /\ UNCHANGED <<pairVars, legacyVars, testVars, cmdVars, isoVars>>
    /\ UNCHANGED <<histVars, wallVars>>

\* Mutant: an invocation that returned an error is made again.
HandlerReturn_Retry(err) ==
    /\ pc = "handler"
    /\ running' = running \ {idx}
    /\ calls' = [calls EXCEPT ![Len(calls)].err = err]
    /\ IF err /\ Logger = LoggerNil
       THEN /\ pc' = "panicked"
            /\ UNCHANGED <<idx, log>>
       ELSE /\ pc' = "loop"
            /\ idx' = IF err THEN idx ELSE idx + 1
            /\ log' = IF err
                      THEN Append(log, [name |-> Commands[idx].Name, cmd |-> idx])
                      ELSE log
    /\ UNCHANGED <<Commands, prev, clockLoc, now, lastNow, tickPrev, ticks>>
    /\ UNCHANGED <<Logger, clock, reads>>
    /\ UNCHANGED <<pairVars, legacyVars, testVars, cmdVars, isoVars>>
    /\ UNCHANGED <<histVars, wallVars>>

\* The handler of the command at idx returns, with an error or nil.  An error
\* is passed to t.Logger.Printf: a method call on a nil *log.Logger is a nil
\* pointer dereference, the panic leaves Tick at this statement.
HandlerReturn(err) ==
    /\ pc = "handler"
    /\ running' = running \ {idx}
    /\ calls' = [calls EXCEPT ![Len(calls)].err = err]
    /\ IF err /\ Logger = LoggerNil
       THEN /\ pc' = "panicked"
            /\ UNCHANGED <<idx, log>>
       ELSE /\ pc' = "loop"
            /\ idx' = idx + 1
            /\ log' = IF err
                      THEN Append(log, [name |-> Commands[idx].Name, cmd |-> idx])
                      ELSE log
    /\ UNCHANGED <<Commands, prev, clockLoc, now, lastNow, tickPrev, ticks>>
    /\ UNCHANGED <<Logger, clock, reads>>
    /\ UNCHANGED <<pairVars, legacyVars, testVars, cmdVars, isoVars>>
    /\ UNCHANGED <<histVars, wallVars>>

\* The loop is over: t.prev = now, and Tick returns.
TickEnd ==
    /\ pc = "loop"
    /\ idx > Len(Commands)
    /\ prev' = now
    /\ idx' = 0
    /\ pc' = "idle"
    /\ UNCHANGED <<Commands, clockLoc, now, lastNow, tickPrev, calls, log, ticks>>
    /\ UNCHANGED <<Logger, clock, reads, running>>
    /\ UNCHANGED <<pairVars, legacyVars, testVars, cmdVars, isoVars>>
    /\ UNCHANGED <<histVars, wallVars>>

NextSteps ==
    \/ \E a \in 0..MaxTime : TickBegin(a)
    \/ \E a \in 0..MaxTime : ClockMove(a)
    \/ TickEval
    \/ \E err \in BOOLEAN : HandlerReturn(err)
    \/ TickEnd

SpecSteps == InitSteps /\ [][NextSteps]_vars

\* SpecStepsLive: the Tick of SpecSteps on a Ticker whose second command has
\* no step (as the announcement and menu_bar commands of cmd/boxer), where a
\* Tick that has been called keeps running (the goroutine that called Tick
\* executes its next statement) and every handler that has been invoked
\* returns.  Nothing obliges the caller to call Tick again, nor the wall
\* clock to move.
InitStepsLive ==
    /\ NewTicker
    /\ \E a \in PairPool, b \in PairPool : b.Step = 0 /\ Commands = <<a, b>>
    /\ clockLoc = "Local"
    /\ Logger \in Loggers
    /\ clock = 0
    /\ idx = 0 /\ reads = 0 /\ running = {}
    /\ NoPair /\ NoLegacy
    /\ NoTest /\ NoIso /\ NoCmd /\ NoHist /\ NoWall
    /\ pc = "idle"

SpecStepsLive ==
    /\ InitStepsLive
    /\ [][NextSteps]_vars
    /\ WF_vars(TickEval)
    /\ WF_vars(\E err \in BOOLEAN : HandlerReturn(err))
    /\ WF_vars(TickEnd)

----------------------------------------------------------------------------
\* SpecIso: two Tickers, each created by NewTicker and given one command,
\* polled in any interleaving; and for each of them the same Ticker in a run
\* of its own, where it is polled with the same clock values and the other
\* Ticker does not exist.

\* A Ticker as NewTicker returns it, with commands cmds appended.
TickerWith(cmds) == [Commands |-> cmds, prev |-> ZeroTime, calls |-> <<>>]

InitIso ==
    /\ NewTicker
    /\ Commands = <<>>
    /\ clockLoc \in Locs
    /\ \E a \in PairPool, b \in PairPool :
          tickers = <<TickerWith(<<a>>), TickerWith(<<b>>)>>
    /\ alone = tickers
    /\ NoPair /\ NoLegacy
    /\ NoTest /\ NoSteps /\ NoCmd /\ NoHist /\ NoWall
    /\ pc = "iso"

\* Mutant: prev is a variable of the package, shared by all Tickers.
TickStore_Global(ts, x, r) ==
    [y \in DOMAIN ts |->
        [ts[y] EXCEPT !.prev = r.prev, !.calls = IF y = x THEN r.calls ELSE @]]

\* What a Tick with result r writes when its receiver is the x-th of the
\* Tickers ts: the receiver's prev (and the record of its invocations).
TickStore(ts, x, r) ==
    [ts EXCEPT ![x] = [@ EXCEPT !.prev = r.prev, !.calls = r.calls]]

\* Tick on the x-th Ticker, its clock returning instant a.
IsoTick(x, a) ==
    /\ pc = "iso"
    /\ \E errs \in ErrChoices(tickers[x].Commands) :
         LET t == ClockTime(a)
             r == TickResult(tickers[x].Commands, tickers[x].prev, t, errs)
             ra == TickResult(alone[x].Commands, alone[x].prev, t, errs)
         IN /\ tickers' = TickStore(tickers, x, r)
            /\ alone' = [alone EXCEPT ![x] = [@ EXCEPT !.prev = ra.prev,
                                                      !.calls = ra.calls]]
    /\ UNCHANGED <<coreVars, pairVars, legacyVars, testVars, cmdVars, stepVars, pc>>
    /\ UNCHANGED <<histVars, wallVars>>

NextIso == \E x \in 1..2 : \E a \in 0..MaxTime : IsoTick(x, a)

SpecIso == InitIso /\ [][NextIso]_vars

----------------------------------------------------------------------------
\* SpecHist: two Tickers that hold the same command, each polled at clock
\* values of its own, so that they come to a poll with different prev and
\* different pasts.  For each Ticker the run keeps, next to prev, the prev its
\* latest Tick started from.

\* A Ticker as NewTicker returns it, with command c appended.
TickerOf(c) ==
    [Commands |-> <<c>>, prev |-> ZeroTime, from |-> ZeroTime, calls |-> <<>>]

InitHist ==
    /\ NewTicker
    /\ Commands = <<>>
    /\ clockLoc \in Locs
    /\ \E c \in PairPool : tickers = <<TickerOf(c), TickerOf(c)>>
    /\ alone = <<>>
    /\ NoPair /\ NoLegacy
    /\ NoTest /\ NoSteps /\ NoCmd /\ NoHist /\ NoWall
    /\ pc = "hist"

\* Tick on the x-th Ticker, its clock returning instant a.
HistTick(x, a) ==
    /\ pc = "hist"
    /\ \E r \in TickResults(tickers[x].Commands, tickers[x].prev, ClockTime(a)) :
           tickers' = [tickers EXCEPT ![x] = [@ EXCEPT !.from = tickers[x].prev,
                                                       !.prev = r.prev,
                                                       !.calls = r.calls]]
    /\ UNCHANGED <<coreVars, pairVars, legacyVars, testVars, cmdVars, stepVars, pc>>
    /\ UNCHANGED <<histVars, wallVars, alone>>

NextHist == \E x \in 1..2 : \E a \in 0..MaxTime : HistTick(x, a)

SpecHist == InitHist /\ [][NextHist]_vars

----------------------------------------------------------------------------
\* SpecWallpaper: boxer_darwin.go.  The handler NewWallpaperHandler returns,
\* wired as cmd/boxer wires it (the sizer is DesktopSize, run on the same
\* executor), is called again and again with step arguments; DesktopSize is
\* also called on its own.  The executor, os.Stat and the generator answer
\* in any way at each call.

\* Text (a string, or the bytes of an output) is a sequence of pieces.  The
\* pieces of an output are its fields; a field is a decimal number or not.
Digits == {"0", "1", "2"}

\* strconv.Atoi on a field the regular expression has matched.
Atoi(f) == CASE f = "0" -> 0 [] f = "1" -> 1 [] f = "2" -> 2

\* An error value: nil, or an error with a message.
NilErr == [ok |-> TRUE, msg |-> <<>>]
Err(m) == [ok |-> FALSE, msg |-> m]

\* What the executor can write: nothing (nil bytes), text that is not a
\* bounds list, a list cut short, and the bounds of a desktop.
Outputs ==
    { <<>>, <<"x">>, <<"0", "0", "1">>,
      <<"0", "0", "1", "2">>, <<"0", "0", "2", "1">> }

\* What a call of the CommandExecutor returns: ([]byte, error).
ExecOutcomes == [out : Outputs, err : {NilErr, Err(<<"cannot run">>)}]

\* regexp `^\d+, \d+, (\d+), (\d+)` on the output.
Matches(b) == Len(b) >= 4 /\ \A j \in 1..4 : b[j] \in Digits

\* DesktopSize(exec) when exec returns o: fmt.Errorf("exec: %s", b) formats
\* the output b.
DesktopSize(o) ==
    IF ~o.err.ok
    THEN [w |-> 0, h |-> 0, err |-> Err(<<"exec: ">> \o o.out)]
    ELSE IF ~Matches(o.out)
    THEN [w |-> 0, h |-> 0, err |-> Err(<<"unexpected exec output: ">> \o o.out)]
    ELSE [w |-> Atoi(o.out[3]), h |-> Atoi(o.out[4]), err |-> NilErr]

\* The arguments (i, n) a Tick passes.
StepArgs == { <<0, 1>>, <<0, 2>>, <<1, 2>> }

\* wallpaper_%04d_%04d_%02d_%02d.png under path: the file of a size and a
\* step.
ImagePath(w, h, i, n) == <<w, h, i, n>>

\* os.Stat on a file of the work directory fs: nil, an error for which
\* os.IsNotExist holds, or another error (which a file that exists or not
\* can give).
StatNotExist == Err(<<"not exist">>)
StatOutcomes(fs, f) ==
    (IF f \in fs THEN {NilErr} ELSE {StatNotExist}) \cup {Err(<<"permission denied">>)}

\* What a call of the generator comes to: the error it returns, and whether
\* it has left a file at the path (a generator can fail before or after
\* os.Create, and the WallpaperGenerator of a caller can return nil without
\* writing anything).
GeneratorOutcomes == [err : {NilErr, Err(<<"bad generator">>)}, wrote : BOOLEAN]

\* No path: the sizer is not given one.
NoPath == <<>>

\* One thing a call has called: the path it was called for, with what it
\* returned.
Called(op, path, out, err) == [op |-> op, path |-> path, out |-> out, err |-> err]

\* Mutant: the handler goes on to set the wallpaper when the generator has
\* failed, and returns the generator's error at the end.
WallpaperHandler_NoShortCircuit(fs, i, n, o1, st, g, o2) ==
    LET size == DesktopSize(o1)
        sized == <<Called("sizer", NoPath, <<>>, size.err)>>
        imgpath == ImagePath(size.w, size.h, i, n)
        stated == Append(sized, Called("stat", imgpath, <<>>, st))
        generated == IF st = StatNotExist
                     THEN Append(stated, Called("generator", imgpath, <<>>, g.err))
                     ELSE stated
        fs2 == IF st = StatNotExist /\ g.wrote THEN fs \cup {imgpath} ELSE fs
        done == Append(generated, Called("exec", imgpath, o2.out, o2.err))
    IN IF ~size.err.ok
       THEN [files |-> fs, trace |-> sized,
             err |-> Err(<<"desktop size: ">> \o size.err.msg)]
       ELSE IF st = StatNotExist /\ ~g.err.ok
       THEN [files |-> fs2, trace |-> done,
             err |-> Err(<<"generate wallpaper: ">> \o g.err.msg)]
       ELSE IF ~o2.err.ok
       THEN [files |-> fs2, trace |-> done, err |-> Err(<<"exec: ">> \o o2.out)]
       ELSE [files |-> fs2, trace |-> done, err |-> NilErr]

\* Mutant: the handler generates the image at every call, without looking
\* whether the file is there.
WallpaperHandler_AlwaysGenerates(fs, i, n, o1, st, g, o2) ==
    LET size == DesktopSize(o1)
        sized == <<Called("sizer", NoPath, <<>>, size.err)>>
        imgpath == ImagePath(size.w, size.h, i, n)
        generated == Append(sized, Called("generator", imgpath, <<>>, g.err))
        fs2 == IF g.wrote THEN fs \cup {imgpath} ELSE fs
        done == Append(generated, Called("exec", imgpath, o2.out, o2.err))
    IN IF ~size.err.ok
       THEN [files |-> fs, trace |-> sized,
             err |-> Err(<<"desktop size: ">> \o size.err.msg)]
       ELSE IF ~g.err.ok
       THEN [files |-> fs2, trace |-> generated,
             err |-> Err(<<"generate wallpaper: ">> \o g.err.msg)]
       ELSE IF ~o2.err.ok
       THEN [files |-> fs2, trace |-> done, err |-> Err(<<"exec: ">> \o o2.out)]
       ELSE [files |-> fs2, trace |-> done, err |-> NilErr]

\* The handler called with (i, n) when the work directory holds the files
\* fs: the files afterwards, what it called and the error it returns.  o1 is
\* what the executor returns to the sizer, st what os.Stat returns, g what
\* the generator returns and o2 what the executor returns for the script
\* that sets the wallpaper, each if it is called.
WallpaperHandler(fs, i, n, o1, st, g, o2) ==
    LET size == DesktopSize(o1)
        sized == <<Called("sizer", NoPath, <<>>, size.err)>>
        imgpath == ImagePath(size.w, size.h, i, n)
        stated == Append(sized, Called("stat", imgpath, <<>>, st))
        generated == IF st = StatNotExist
                     THEN Append(stated, Called("generator", imgpath, <<>>, g.err))
                     ELSE stated
        fs2 == IF st = StatNotExist /\ g.wrote THEN fs \cup {imgpath} ELSE fs
        done == Append(generated, Called("exec", imgpath, o2.out, o2.err))
    IN IF ~size.err.ok
       THEN [files |-> fs, trace |-> sized,
             err |-> Err(<<"desktop size: ">> \o size.err.msg)]
       ELSE IF st = StatNotExist /\ ~g.err.ok
       THEN [files |-> fs2, trace |-> generated,
             err |-> Err(<<"generate wallpaper: ">> \o g.err.msg)]
       ELSE IF ~o2.err.ok
       THEN [files |-> fs2, trace |-> done, err |-> Err(<<"exec: ">> \o o2.out)]
       ELSE [files |-> fs2, trace |-> done, err |-> NilErr]

\* What a call returned: the function called, the size (DesktopSize only)
\* and the error.
Returned(fn, w, h, err) == [fn |-> fn, w |-> w, h |-> h, err |-> err]

InitWallpaper ==
    /\ NewTicker
    /\ Commands = <<>>
    /\ clockLoc = "Local"
    /\ files = {}
    /\ trace = <<>>
    /\ ret = Returned("", 0, 0, NilErr)
    /\ NoGen
    /\ NoPair /\ NoLegacy /\ NoTest /\ NoSteps /\ NoIso /\ NoHist /\ NoCmd
    /\ pc = "wallpaper"

\* The outcomes passed for a generator and an executor that are not called.
NotGenerated == [err |-> NilErr, wrote |-> FALSE]
NotExecuted == [out |-> <<>>, err |-> NilErr]

\* A call of the handler with (i, n).  An outcome is chosen for what the
\* call gets to: os.Stat when the sizer has succeeded, the generator when
\* os.Stat has reported that the file does not exist, the executor when
\* nothing has failed before it.
HandlerCall(i, n) ==
    /\ pc = "wallpaper"
    /\ \E o1 \in ExecOutcomes :
         LET size == DesktopSize(o1)
             imgpath == ImagePath(size.w, size.h, i, n)
             stats == IF size.err.ok THEN StatOutcomes(files, imgpath) ELSE {NilErr}
         IN \E st \in stats :
              LET gens == IF size.err.ok /\ st = StatNotExist
                          THEN GeneratorOutcomes ELSE {NotGenerated}
              IN \E g \in gens :
                   LET execs == IF size.err.ok /\ g.err.ok
                                THEN ExecOutcomes ELSE {NotExecuted}
                   IN \E o2 \in execs :
                        LET r == WallpaperHandler(files, i, n, o1, st, g, o2)
                        IN /\ files' = r.files
                           /\ trace' = r.trace
                           /\ ret' = Returned("handler", 0, 0, r.err)
    /\ UNCHANGED <<coreVars, pairVars, legacyVars, testVars, cmdVars, stepVars, isoVars>>
    /\ UNCHANGED <<histVars, genVars, pc>>

\* A call of DesktopSize(exec) on its own.
SizeCall ==
    /\ pc = "wallpaper"
    /\ \E o \in ExecOutcomes :
         LET size == DesktopSize(o)
         IN /\ trace' = <<Called("exec", NoPath, o.out, o.err)>>
            /\ ret' = Returned("DesktopSize", size.w, size.h, size.err)
    /\ UNCHANGED <<coreVars, pairVars, legacyVars, testVars, cmdVars, stepVars, isoVars>>
    /\ UNCHANGED <<histVars, genVars, files, pc>>

NextWallpaper ==
    \/ \E a \in StepArgs : HandlerCall(a[1], a[2])
    \/ SizeCall

SpecWallpaper == InitWallpaper /\ [][NextWallpaper]_vars

----------------------------------------------------------------------------
\* NewWallpaperGenerator (boxer_darwin.go)

\* Longest list of colours passed as foregrounds or as backgrounds.
MaxColors == 3

\* Longest list of times passed.
MaxTimes == 3

\* Largest time of day of a time passed, in the unit of this section.
MaxHour == 1

\* 24 * time.Hour in that unit: a day is the times of day 0..MaxHour.
Day == MaxHour + 1

\* The days from January 1 of the year 0, the date normalizeTime gives, to
\* January 1 of the year 1, the date of the zero Time.
DaysOfYearZero == 366

\* color.RGBA values.
Colors == {"white", "black"}

\* The times passed: UTC times on the date time.Parse gives a time of day
\* (January 1 of the year 0) and on the date of the zero Time.
InputTimes ==
    { [abs |-> d * Day + h, loc |-> "UTC"] : d \in {-DaysOfYearZero, 0}, h \in 0..MaxHour }

\* Time.Add(d), Time.After(u).
Add(t, d) == [t EXCEPT !.abs = @ + d]
After(t, u) == t.abs > u.abs

\* The time of day of a UTC time: what Hour(), Minute(), Second() and
\* Nanosecond() give together.
Clock(t) == t.abs % Day

\* Mutant: normalizeTime returns its argument.
normalizeTime_Identity(t) == t

\* normalizeTime(t): the time of day of t on January 1 of the year 0, UTC.
normalizeTime(t) == [abs |-> Clock(t) - DaysOfYearZero * Day, loc |-> "UTC"]

\* What the returned function has captured: times, foregrounds, backgrounds.
Generator(times, foregrounds, backgrounds) ==
    [times |-> times, foregrounds |-> foregrounds, backgrounds |-> backgrounds]

\* The nil WallpaperGenerator.
NilGenerator == Generator(<<>>, <<>>, <<>>)

\* return nil, fmt.Errorf(m)
NoGenerator(m) == [gen |-> NilGenerator, err |-> Err(<<m>>)]

\* NewWallpaperGenerator(now, times, foregrounds, backgrounds): the pair
\* (WallpaperGenerator, error) it returns.
NewWallpaperGenerator(times, foregrounds, backgrounds) ==
    LET fgs == IF Len(foregrounds) = 1
               THEN Append(foregrounds, foregrounds[1]) ELSE foregrounds
        bgs == IF Len(backgrounds) = 1
               THEN Append(backgrounds, backgrounds[1]) ELSE backgrounds
        ts == CASE Len(times) = 0 -> <<ZeroTime, Add(ZeroTime, Day)>>
                [] Len(times) = 1 ->
                     LET t0 == normalizeTime(times[1])
                     IN <<t0, Add(Truncate(t0, Day), Day)>>
                [] Len(times) = 2 ->
                     <<normalizeTime(times[1]), normalizeTime(times[2])>>
                [] OTHER -> times
    IN IF Len(foregrounds) = 0 THEN NoGenerator("foreground color required")
       ELSE IF Len(foregrounds) > 2
       THEN NoGenerator("too many foreground colors specified")
       ELSE IF Len(backgrounds) = 0 THEN NoGenerator("background color required")
       ELSE IF Len(backgrounds) > 2
       THEN NoGenerator("too many background colors specified")
       ELSE IF Len(times) > 2 THEN NoGenerator("too many times specified")
       ELSE IF After(ts[1], ts[2]) THEN NoGenerator("times are out of order")
       ELSE [gen |-> Generator(ts, fgs, bgs), err |-> NilErr]

\* The arguments of a call.
GeneratorArgs ==
    [times : SeqsUpTo(InputTimes, MaxTimes),
     foregrounds : SeqsUpTo(Colors, MaxColors),
     backgrounds : SeqsUpTo(Colors, MaxColors)]

InitGenerator ==
    /\ NewTicker
    /\ Commands = <<>>
    /\ clockLoc = "Local"
    /\ genArgs \in GeneratorArgs
    /\ built = <<>>
    /\ files = {} /\ trace = <<>> /\ ret = <<>>
    /\ NoPair /\ NoLegacy /\ NoTest /\ NoSteps /\ NoIso /\ NoHist /\ NoCmd
    /\ pc = "generator"

\* The call of NewWallpaperGenerator with the arguments.
Construct ==
    /\ pc = "generator"
    /\ built = <<>>
    /\ built' = <<NewWallpaperGenerator(genArgs.times, genArgs.foregrounds,
                                        genArgs.backgrounds)>>
    /\ UNCHANGED <<coreVars, pairVars, legacyVars, testVars, cmdVars, stepVars, isoVars>>
    /\ UNCHANGED <<histVars, files, trace, ret, genArgs, pc>>

NextGenerator == Construct

SpecGenerator == InitGenerator /\ [][NextGenerator]_vars

----------------------------------------------------------------------------
\* Claims about the library Ticker.

CallsOf(k) == SelectSeq(calls, LAMBDA c : c.cmd = k)

\* C1 (boundary count): TestTicker_Tick ends with the handler invoked exactly
\* 61 times, every time with stepCount 15, and exactly 5 times with
\* stepIndex 0.
C1_BoundaryCount ==
    pc = "done" => (stepN = 61 /\ intervalN = 5 /\ otherN = 0)

C1_Witness == pc = "done" /\ stepN > 0 /\ offset = TestSpan + 1

\* C2 (step-index range), as claimed: every invocation a Tick makes for a
\* valid command has 0 <= stepIndex < stepCount.
C2_StepIndexRange ==
    \A j \in 1..Len(calls) :
        ValidCommand(Commands[calls[j].cmd]) => (0 <= calls[j].i /\ calls[j].i < calls[j].n)

\* C3 (no duplicate fire): when two consecutive Ticks both read the same
\* clock value, the second one invokes no handler.
C3_NoDuplicateFire ==
    (ticks >= 2 /\ lastNow = now) => calls = <<>>

C3_Witness ==
    /\ ticks >= 2 /\ lastNow = now /\ now.abs > 0
    /\ Len(Commands) > 0 /\ Commands[1].Handler = HandlerFunc
    /\ calls = <<>>

\* The commands the first Tick must invoke: those with a handler.
FirstPollFiresAll ==
    \A k \in 1..Len(Commands) :
        Len(CallsOf(k)) = (IF Commands[k].Handler = HandlerFunc THEN 1 ELSE 0)

\* C4 (first poll), as claimed: the first Tick invokes every command that
\* has a handler exactly once, whatever the clock returns.
C4_FirstPollAnyNow == ticks = 1 => FirstPollFiresAll

\* now is outside the step bucket of the zero Time for every command.
AwayFromZero ==
    \A k \in 1..Len(Commands) :
        Truncate(now, EffectiveStep(Commands[k])) # ZeroTime

\* C4 (first poll), amended: the first Tick invokes every command that has a
\* handler exactly once, wherever now falls with respect to the bucket
\* boundaries, provided now is outside the step bucket of the zero Time.
C4_FirstPoll == (ticks = 1 /\ AwayFromZero) => FirstPollFiresAll

\* The first Tick, at an instant inside a step bucket, has fired the command.
C4_Witness ==
    /\ ticks = 1 /\ AwayFromZero /\ Len(calls) = 1
    /\ Truncate(now, EffectiveStep(Commands[1])) # now

\* C7 (zero-step normalization): a valid command with step 0 is invoked only
\* with stepIndex 0 and stepCount 1, and a Tick invokes it exactly when the
\* interval bucket of now differs from the interval bucket of prev.
C7_ZeroStep ==
    \A k \in 1..Len(Commands) :
        (ticks >= 1 /\ Commands[k].Step = 0 /\ Commands[k].Handler = HandlerFunc) =>
            /\ \A j \in 1..Len(calls) :
                   calls[j].cmd = k => (calls[j].i = 0 /\ calls[j].n = 1)
            /\ (Len(CallsOf(k)) = 1) <=>
                   (Truncate(tickPrev, Commands[k].Interval) #
                    Truncate(now, Commands[k].Interval))
            /\ Len(CallsOf(k)) <= 1

\* A zero-step command fired on a Tick after the first, inside its interval.
C7_Witness ==
    /\ ticks >= 2 /\ Len(Commands) = 1
    /\ Commands[1].Step = 0 /\ Commands[1].Interval > 1
    /\ calls = <<[cmd |-> 1, i |-> 0, n |-> 1, err |-> FALSE]>>
    /\ now.abs % Commands[1].Interval # 0

\* Number of step boundaries of command cmd between instants a and b.
BoundariesBetween(cmd, a, b) ==
    LET s == EffectiveStep(cmd)
        d == (b \div s) - (a \div s)
    IN IF d < 0 THEN -d ELSE d

\* C9 (at most once per poll, no replay): a Tick invokes each command at
\* most once, however many step boundaries lie between prev and now, and the
\* invocation carries the stepCount of the command and the stepIndex of the
\* step that contains now (for a step that divides the interval: the number
\* of whole steps from the start of now's interval to now).
C9_AtMostOnce ==
    \A k \in 1..Len(Commands) :
        /\ Len(CallsOf(k)) <= 1
        /\ \A j \in 1..Len(calls) :
               calls[j].cmd = k =>
                   LET s == EffectiveStep(Commands[k])
                       I == Commands[k].Interval
                   IN /\ calls[j].n = I \div s
                      /\ I % s = 0 => calls[j].i = (now.abs % I) \div s

\* A Tick after the first that jumped over several steps and over a whole
\* interval, and invoked the handler once.
C9_Witness ==
    /\ ticks >= 2 /\ Len(Commands) = 1 /\ Len(calls) = 1
    /\ Commands[1].Step = 1 /\ Commands[1].Interval = 2
    /\ BoundariesBetween(Commands[1], tickPrev.abs, now.abs) >= 5
    /\ tickPrev.abs < now.abs
    /\ calls[1].i = 1

\* The latest Tick crossed a step boundary of the k-th command.
Crossed(k) ==
    Truncate(tickPrev, EffectiveStep(Commands[k])) #
    Truncate(now, EffectiveStep(Commands[k]))

\* C6 (failure isolation): when a handler returns an error in a Tick, every
\* later command of the list whose step boundary was crossed is still invoked
\* in that Tick; and once handlers have returned errors in earlier Ticks,
\* every command (the failing ones and the others) is invoked at every
\* crossing of its step boundary.
C6_FailureIsolation ==
    /\ \A j \in 1..Len(calls) : \A k \in 1..Len(Commands) :
           (calls[j].err /\ k > calls[j].cmd /\ Crossed(k)) => Len(CallsOf(k)) = 1
    /\ failed # {} =>
           \A k \in 1..Len(Commands) : Crossed(k) => Len(CallsOf(k)) = 1

\* The first command failed in an earlier Tick and fails again in this one,
\* and the second command is invoked after it.
C6_Witness ==
    /\ 1 \in failed /\ ticks >= 2
    /\ Len(calls) = 2
    /\ calls[1].cmd = 1 /\ calls[1].err
    /\ calls[2].cmd = 2 /\ ~calls[2].err

\* The arguments of the invocations cs.
Args(cs) == [j \in 1..Len(cs) |-> <<cs[j].i, cs[j].n>>]

\* C8 (independence): at every poll a command registered together with
\* another command receives the same invocations (stepIndex, stepCount) as
\* the same command registered alone on a Ticker reading the same clock.
C8_Independence ==
    pc = "pair" => \A k \in 1..2 : Args(CallsOf(k)) = Args(soloCalls[k])

\* The two commands have different steps and intervals, and in a poll after
\* the first one only the second command fired, on both Tickers that hold it.
C8_Witness ==
    /\ pc = "pair" /\ ticks >= 2
    /\ Commands[1].Step # Commands[2].Step
    /\ Commands[1].Interval # Commands[2].Interval
    /\ Len(calls) = 1 /\ calls[1].cmd = 2
    /\ soloCalls[1] = <<>> /\ Len(soloCalls[2]) = 1
    /\ tickPrev.abs > 0

\* C11 (firing order): within one Tick the handlers are invoked in the order
\* of Ticker.Commands, and a handler is invoked only when no other handler
\* is running: the invocations never overlap.
C11_FiringOrder ==
    /\ \A j \in 1..Len(calls) : \A m \in 1..Len(calls) :
           j < m => calls[j].cmd < calls[m].cmd
    /\ Cardinality(running) <= 1
    /\ \A k \in running :
           pc = "handler" /\ k = idx /\ calls[Len(calls)].cmd = k

\* Both commands fire in a Tick after the first; the handler of the first
\* has returned (an error) and the handler of the second is running.
C11_Witness ==
    /\ pc = "handler" /\ ticks >= 2
    /\ Len(calls) = 2 /\ calls[1].cmd = 1 /\ calls[1].err /\ calls[2].cmd = 2
    /\ running = {2}

\* The k-th command's step bucket of now is the one of the previous poll.
SameStepBucket(k) ==
    LET s == EffectiveStep(Commands[k])
    IN lastNow.loc = now.loc /\ (lastNow.abs \div s) = (now.abs \div s)

\* C12 (no retry): once the handler of a command has returned an error, a
\* later Tick invokes that command only if the step bucket of now differs
\* from the step bucket of the previous poll; as long as the polls stay in
\* the step bucket where the handler failed it is not invoked again.
C12_NoRetry ==
    \A k \in 1..Len(Commands) :
        (ticks >= 2 /\ k \in failed /\ SameStepBucket(k)) => CallsOf(k) = <<>>

\* The first command has failed; this Tick reads another instant of the
\* same step bucket as the previous poll and invokes nothing.
C12_Witness ==
    /\ pc = "fail" /\ ticks >= 2 /\ 1 \in failed
    /\ SameStepBucket(1) /\ lastNow # now
    /\ calls = <<>>

\* C13 (failure reporting), as claimed: every invocation that returns an
\* error produces one log record with the name of its command, a successful
\* one produces none, and no Tick ends in a fault, whatever the Logger is.
C13_FailureReporting ==
    /\ pc # "panicked"
    /\ (pc = "idle" /\ ticks >= 1) =>
           /\ Len(log) = Cardinality({ j \in 1..Len(calls) : calls[j].err })
           /\ \A j \in 1..Len(calls) :
                  calls[j].err <=>
                      \E m \in 1..Len(log) :
                          /\ log[m].cmd = calls[j].cmd
                          /\ log[m].name = Commands[calls[j].cmd].Name

\* C14 (backward clock): a Tick whose clock value is earlier than prev
\* invokes the handler exactly when now lies in another step bucket than
\* prev, once, with the step count of the command and the index of the step
\* that contains now; inside the step bucket of prev it invokes nothing.
C14_BackwardClock ==
    \A k \in 1..Len(Commands) :
        (ticks >= 2 /\ now.abs < tickPrev.abs /\ Commands[k].Handler = HandlerFunc) =>
            LET s == EffectiveStep(Commands[k])
                I == Commands[k].Interval
            IN IF (tickPrev.abs \div s) # (now.abs \div s)
               THEN /\ Len(CallsOf(k)) = 1
                    /\ CallsOf(k)[1].n = I \div s
                    /\ CallsOf(k)[1].i =
                           Quo((now.abs \div s) * s - (now.abs \div I) * I, s)
                    /\ I % s = 0 => CallsOf(k)[1].i = (now.abs % I) \div s
               ELSE CallsOf(k) = <<>>

\* The clock went back from one interval into the last step of the interval
\* before it, and the handler was invoked with that step.
C14_Witness ==
    /\ ticks >= 2 /\ Len(Commands) = 1 /\ now.abs < tickPrev.abs
    /\ Commands[1].Step = 1 /\ Commands[1].Interval = 2
    /\ tickPrev.abs \div 2 > now.abs \div 2
    /\ calls = <<[cmd |-> 1, i |-> 1, n |-> 2, err |-> FALSE]>>

\* bucket(t, d): t floored to a multiple of d from the zero Time, as a Time.
Bucket(t, d) == [abs |-> (t.abs \div d) * d, loc |-> t.loc]

\* C17 (boundary detection rule): a Tick invokes a command if and only if it
\* has a handler and bucket(prev, effectiveStep) # bucket(now, effectiveStep),
\* effectiveStep being the step when it is not 0 and the interval otherwise.
C17_BoundaryRule ==
    \A k \in 1..Len(Commands) :
        ticks >= 1 =>
            LET d == IF Commands[k].Step # 0 THEN Commands[k].Step
                     ELSE Commands[k].Interval
            IN (Len(CallsOf(k)) >= 1) <=>
                   /\ Commands[k].Handler # HandlerNil
                   /\ Bucket(tickPrev, d) # Bucket(now, d)

\* The clock value changed inside a step bucket: a command with a handler
\* was not invoked.
C17_Witness ==
    /\ ticks >= 2 /\ Len(Commands) = 1 /\ Commands[1].Handler = HandlerFunc
    /\ Commands[1].Step = 2 /\ Commands[1].Interval = 3
    /\ tickPrev.abs = 3 /\ now.abs = 2
    /\ calls = <<>>

\* C18 (step-index formula), as claimed: at every firing stepIndex is
\* floor((bucket(now, effectiveStep) - bucket(now, interval)) / effectiveStep),
\* also when the numerator is negative.
C18_StepIndexFloor ==
    \A j \in 1..Len(calls) :
        LET s == EffectiveStep(Commands[calls[j].cmd])
            I == Commands[calls[j].cmd].Interval
        IN calls[j].i = ((now.abs \div s) * s - (now.abs \div I) * I) \div s

\* C19 (lastTime update): a Tick that has returned has set prev to the value
\* of now it read, whatever its handlers did; as long as the loop over the
\* commands runs, prev is the value the Tick found.
C19_PrevUpdate ==
    /\ (pc = "idle" /\ ticks >= 1) => prev = now
    /\ pc \in {"loop", "handler"} => prev = tickPrev

\* A Tick after the first returned; both handlers were invoked, the first
\* returned an error, and prev moved to now.
C19_Witness ==
    /\ pc = "idle" /\ ticks >= 2
    /\ Len(calls) = 2 /\ calls[1].err /\ ~calls[2].err
    /\ prev = now /\ tickPrev # now

\* C20 (single clock read): a Tick calls t.Now() once; every invocation it
\* makes is decided and numbered with that value, also after the wall clock
\* has moved, and the same value becomes prev.
C20_SingleClockRead ==
    /\ ticks >= 1 => reads = 1
    /\ \A j \in 1..Len(calls) :
           /\ Fires(tickPrev, now, Commands[calls[j].cmd])
           /\ calls[j].i = StepIndex(now, Commands[calls[j].cmd])
    /\ \A k \in 1..Len(Commands) :
           (k < idx \/ (pc = "idle" /\ ticks >= 1)) =>
               (Fires(tickPrev, now, Commands[k]) <=> Len(CallsOf(k)) = 1)
    /\ (pc = "idle" /\ ticks >= 1) => prev = now

\* While the first handler ran the wall clock moved into another step bucket
\* of the second command; the second command was still evaluated with the
\* value read at the start of the Tick.
C20_Witness ==
    /\ pc = "idle" /\ ticks >= 2 /\ reads = 1
    /\ Len(calls) = 1 /\ calls[1].cmd = 1
    /\ clock # now.abs
    /\ Fires(tickPrev, ClockTime(clock), Commands[2])

\* C15 (Ticker isolation): in every interleaving of Ticks on two Tickers,
\* each Ticker has the commands, the prev and the invocations it has in a
\* run where it is polled alone with the same clock values.
C15_Isolation ==
    pc = "iso" => \A x \in 1..2 : tickers[x] = alone[x]

\* Both Tickers have been polled, at instants of different step buckets; the
\* latest Tick of the first fired and the latest Tick of the second did not.
C15_Witness ==
    /\ pc = "iso"
    /\ tickers[1].prev.abs > tickers[2].prev.abs /\ tickers[2].prev.abs > 0
    /\ tickers[1].Commands # tickers[2].Commands
    /\ Len(tickers[1].calls) = 1 /\ tickers[2].calls = <<>>
    /\ Fires(tickers[1].prev, tickers[2].prev, tickers[2].Commands[1])

----------------------------------------------------------------------------
\* Claims about cmd/boxer.

\* A command of the configuration violates the data-model invariant.
InvalidConfig(c) ==
    \/ c.Wallpaper.Enabled /\
         ~ValidCommand(Command("wallpaper", c.Wallpaper.Step, c.Wallpaper.Interval,
                               HandlerFunc))
    \/ c.Announcement.Enabled /\ c.Announcement.Interval <= 0
    \/ c.MenuBar.Enabled /\ c.MenuBar.Interval <= 0

\* C16 (validation errors precede polling): when reading the configuration,
\* creating the work directory or building the ticker fails, Run returns the
\* error of that stage, and a Run that has returned has never called Tick
\* nor invoked a handler.
C16_ErrorsPrecedePolling ==
    /\ pc = "returned" =>
           /\ runErr # ""
           /\ ticks = 0 /\ calls = <<>> /\ prev = ZeroTime
    /\ (pc # "run" /\ cfg.Setup # "") =>
           (pc = "returned" /\ runErr = cfg.Setup)
    /\ (pc # "run" /\ cfg.Setup = "" /\ cfg.Config.Wallpaper.Enabled
          /\ cfg.Config.Wallpaper.Fault # "") =>
           (pc = "returned" /\ runErr = "cannot create ticker")

\* The wallpaper generator could not be created while another module was
\* enabled: Run has returned the error.
C16_Witness ==
    /\ pc = "returned" /\ runErr = "cannot create ticker"
    /\ cfg.Setup = "" /\ cfg.Config.Wallpaper.Fault = "wallpaper generator"
    /\ cfg.Config.Announcement.Enabled
    /\ ticks = 0

\* C5 (construction-time validation), as claimed: a configuration with an
\* invalid command makes Run return an error, and no Tick evaluates a command
\* that violates interval > 0 and (step == 0 or step <= interval).
C5_ConstructionValidation ==
    /\ (pc # "run" /\ InvalidConfig(cfg.Config)) => runErr # ""
    /\ ticks >= 1 => \A k \in 1..Len(Commands) : ValidCommand(Commands[k])

----------------------------------------------------------------------------
\* Claims about the legacy Ticker.

\* The latest Tick of the boxer.Ticker invoked the handler with stepIndex 0.
FiredIndexZero == \E j \in 1..Len(calls) : calls[j].i = 0

\* C10 (legacy interval callback), as claimed: at every poll, for any clock
\* values, the legacy Ticker invokes IntervalHandler exactly when the
\* per-command Ticker invokes the handler with stepIndex 0.
C10_LegacyEquivalentAnyClock ==
    ticks >= 1 => ((legacyCalls.interval = 1) <=> FiredIndexZero)

\* The clock value of the latest poll is regular: the first poll reads an
\* instant in the first step of its interval; a later poll reads an instant
\* not before the one of the previous poll and at most one step bucket
\* after it.
RegularPoll ==
    LET s == Commands[1].Step
        I == Commands[1].Interval
    IN IF ticks = 1
       THEN now.abs % I < s
       ELSE /\ lastNow.abs <= now.abs
            /\ (now.abs \div s) - (lastNow.abs \div s) <= 1

\* C10, amended: at every regular poll the legacy Ticker invokes
\* IntervalHandler exactly when the per-command Ticker invokes the handler
\* with stepIndex 0.
C10_LegacyEquivalent ==
    (ticks >= 1 /\ RegularPoll) => ((legacyCalls.interval = 1) <=> FiredIndexZero)

\* A regular poll after the first entered a new interval: both fired.
C10_Witness ==
    /\ ticks >= 2 /\ RegularPoll
    /\ Commands[1].Interval > Commands[1].Step
    /\ legacyCalls.interval = 1 /\ FiredIndexZero
    /\ lastNow.abs > 0

----------------------------------------------------------------------------
\* Claims about commands without a handler.

\* C21 (absent handler): a command whose Handler is nil is never invoked (an
\* invocation of a nil func is the fault), also when its step boundary is
\* crossed; the other command of the list is invoked in that Tick exactly
\* when its own step boundary was crossed, and prev is set to now.
C21_AbsentHandler ==
    (pc = "nil" /\ ticks >= 1) =>
        /\ \A j \in 1..Len(calls) : Commands[calls[j].cmd].Handler # HandlerNil
        /\ \A k \in 1..2 :
               Commands[k].Handler # HandlerNil =>
                   Len(CallsOf(k)) = (IF Crossed(k) THEN 1 ELSE 0)
        /\ prev = now

\* The first command has no handler and the second has one; a Tick crossed a
\* step boundary of both and invoked the second only.
C21_Witness ==
    /\ pc = "nil" /\ ticks >= 2
    /\ Commands[1].Handler = HandlerNil /\ Commands[2].Handler = HandlerFunc
    /\ Crossed(1) /\ Crossed(2)
    /\ Len(calls) = 1 /\ calls[1].cmd = 2
    /\ prev = now

\* C22 (Tick only reads commands): no Tick adds, removes, reorders or changes
\* an element of Ticker.Commands (name, step, interval, handler); a command
\* with step 0 still has step 0 after any number of Ticks.
C22_CommandsReadOnly == [][Commands' = Commands]_vars

\* After two Ticks or more, the latest having invoked both commands, the
\* first command still has the step 0 and the interval it was registered with.
C22_Witness ==
    /\ pc = "fail" /\ ticks >= 2
    /\ Len(calls) = 2
    /\ Commands[1].Step = 0 /\ Commands[1].Interval = 2
    /\ Commands[2].Step = 1

\* A call of Tick is under way.
InTick == pc \in {"loop", "handler"}

\* C23 (bounded poll): every invoked handler returning, a Tick that has been
\* called ends (it returns, or it leaves by the panic of a nil Logger), it
\* never has invoked more than len(Commands) handlers, and whenever no Tick
\* is under way another Tick can be called, at any clock value.
C23_BoundedPoll ==
    /\ [](Len(calls) <= Len(Commands))
    /\ [](~InTick => \A a \in 0..MaxTime : ENABLED TickBegin(a))
    /\ (InTick ~> ~InTick)

\* A Tick that is not the first has returned after invoking len(Commands)
\* handlers, one of which returned an error.
C23_Witness ==
    /\ pc = "idle" /\ ticks >= 2
    /\ Len(calls) = Len(Commands)
    /\ calls[1].err
    /\ prev = now

----------------------------------------------------------------------------
\* Claims about the loop of cmd/boxer.

\* Run is in its loop.
InLoop == pc \in {"ticking", "sleeping"}

\* C24 (driver loop liveness): once the ticker has been built, Run stays in
\* its loop at every step (whatever the handlers return, it does not return),
\* and it stays for ever neither at the call of Tick nor in the sleep: Tick
\* and sleep follow each other without end.
C24_DriverLoop ==
    /\ [][InLoop => InLoop']_vars
    /\ []<>(pc # "ticking")
    /\ []<>(pc # "sleeping")

\* Run is in its loop after two Ticks or more, and a handler has returned an
\* error in the latest one.
C24_Witness ==
    /\ pc = "sleeping" /\ ticks >= 2
    /\ log # <<>>
    /\ runErr = ""

----------------------------------------------------------------------------
\* Claims about the whole run of one command.

\* C25 (drift-free, once per bucket): as long as no poll read an earlier
\* clock value than the poll before it, whatever the distance between the
\* polls and the clock value of the first one, the handler is not invoked in
\* a step bucket in which an earlier Tick has invoked it, and a Tick invokes
\* it at most once.
C25_OncePerBucket ==
    (pc = "polling" /\ cadence # "any") =>
        /\ Len(calls) <= 1
        /\ calls # <<>> => (now.abs \div EffectiveStep(Commands[1])) \notin firedBuckets

\* A run of four invocations or more in different step buckets, with polls
\* more than one step apart.
C25_Witness ==
    /\ pc = "polling" /\ cadence = "monotone"
    /\ Cardinality(firedBuckets) >= 3
    /\ calls # <<>>
    /\ Commands[1].Step = 1 /\ Commands[1].Interval = 2

\* The step of the command divides its interval.
StepDivides == Commands[1].Interval % EffectiveStep(Commands[1]) = 0

\* The step bucket of now and the one of the poll before.
NowBucket == now.abs \div EffectiveStep(Commands[1])
LastBucket == lastNow.abs \div EffectiveStep(Commands[1])

\* The latest poll entered a step bucket: the step bucket of now is not the
\* one of the poll before; for the first poll, not the one the Ticker starts
\* in, the step bucket of the zero time.Time (which is a UTC value).
EnteredBucket ==
    IF ticks = 1
    THEN ~(now.loc = ZeroTime.loc /\ NowBucket = 0)
    ELSE NowBucket # LastBucket

\* The step number of an invocation that follows another is the step number
\* of that one, plus 1, modulo stepCount.
IndexFollows ==
    (calls # <<>> /\ lastFired # <<>>) =>
        calls[1].i = (lastFired[1] + 1) % StepCount(Commands[1])

\* C26 (no step missed under fine polling): with a step that divides the
\* interval and polls that never go back nor more than one step forward,
\* every poll that enters a step bucket invokes the handler exactly once, no
\* other poll invokes it, no bucket is fired twice, and the step number of
\* every invocation after the first is the one of the invocation before it,
\* plus 1, modulo stepCount.
C26_NoStepMissed ==
    (pc = "polling" /\ ticks >= 1 /\ cadence = "fine" /\ StepDivides) =>
        /\ Len(calls) = (IF EnteredBucket THEN 1 ELSE 0)
        /\ calls # <<>> => NowBucket \notin firedBuckets
        /\ IndexFollows

\* Fine polling of a command of three steps: the latest Tick entered the
\* bucket of step 0 again after the handler had been invoked in three buckets
\* or more, the latest of them with step number 2.
C26_Witness ==
    /\ pc = "polling" /\ cadence = "fine"
    /\ Commands[1].Step = 1 /\ Commands[1].Interval = 3
    /\ Cardinality(firedBuckets) >= 3
    /\ lastFired = <<2>>
    /\ Len(calls) = 1 /\ calls[1].i = 0 /\ calls[1].n = 3

----------------------------------------------------------------------------
\* Claims about two Tickers with the same command.

\* C27 (history independence of the arguments): when the latest Ticks of two
\* Tickers that hold the same command read the same clock value and both
\* invoked the handler, they passed the same (stepIndex, stepCount), whatever
\* prev each of them started from and whatever polls came before.
C27_HistoryIndependence ==
    pc = "hist" =>
        \A x \in 1..2 : \A y \in 1..2 :
            ( /\ tickers[x].calls # <<>>
              /\ tickers[y].calls # <<>>
              /\ tickers[x].prev = tickers[y].prev )
            => Args(tickers[x].calls) = Args(tickers[y].calls)

\* Both Tickers fired at the same clock value, in the second step of an
\* interval, one coming from the first step of that interval and the other
\* from an earlier interval.
C27_Witness ==
    /\ pc = "hist"
    /\ tickers[1].Commands[1].Step = 1 /\ tickers[1].Commands[1].Interval = 2
    /\ tickers[1].prev = tickers[2].prev /\ tickers[1].prev.abs = 3
    /\ tickers[1].from.abs = 2 /\ tickers[2].from.abs = 1
    /\ Args(tickers[1].calls) = << <<1, 2>> >>
    /\ Args(tickers[2].calls) = << <<1, 2>> >>

\* NewConfig(): every module disabled.
DefaultConfig ==
    [Wallpaper |-> [Enabled |-> FALSE, Step |-> DefaultWallpaperStep,
                    Interval |-> DefaultWallpaperInterval, Fault |-> ""],
     Announcement |-> [Enabled |-> FALSE, Interval |-> DefaultAnnouncementInterval],
     MenuBar |-> [Enabled |-> FALSE, Interval |-> DefaultMenuBarInterval]]

\* Whether the configuration enables the module of the command named m.
ModuleEnabled(c, m) ==
    CASE m = "wallpaper" -> c.Wallpaper.Enabled
      [] m = "announcement" -> c.Announcement.Enabled
      [] m = "menu_bar" -> c.MenuBar.Enabled

\* The place of a module in the fixed order.
ModuleRank(m) ==
    CASE m = "wallpaper" -> 1
      [] m = "announcement" -> 2
      [] m = "menu_bar" -> 3

Modules == {"wallpaper", "announcement", "menu_bar"}

\* C28 (command list from configuration): the Ticker that Run polls has a
\* command named after a module if and only if the configuration enables the
\* module, the commands standing in the order wallpaper, announcement,
\* menu_bar; with the configuration of NewConfig() (every module disabled)
\* it has no command and no Tick invokes a handler.
C28_CommandsFromConfig ==
    /\ InLoop =>
           /\ \A k \in 1..Len(Commands) : Commands[k].Name \in Modules
           /\ \A m \in Modules :
                  (\E k \in 1..Len(Commands) : Commands[k].Name = m)
                      <=> ModuleEnabled(cfg.Config, m)
           /\ \A j \in 1..Len(Commands) : \A k \in 1..Len(Commands) :
                  j < k => ModuleRank(Commands[j].Name) < ModuleRank(Commands[k].Name)
    /\ (pc \in {"run", "ticking", "sleeping", "returned"} /\ cfg.Config = DefaultConfig) =>
           (Commands = <<>> /\ calls = <<>>)

\* Run polls a Ticker built from a configuration that enables the three
\* modules, and a Tick has invoked the three handlers.
C28_Witness ==
    /\ pc = "sleeping"
    /\ cfg.Config.Wallpaper.Enabled /\ cfg.Config.Announcement.Enabled
    /\ cfg.Config.MenuBar.Enabled
    /\ Len(Commands) = 3
    /\ Len(calls) = 3

----------------------------------------------------------------------------
\* Claims about the wallpaper handler and DesktopSize.

\* The collaborators the latest call has called, in order (os.Stat is not
\* one of them).
Collaborators ==
    LET ops == [j \in 1..Len(trace) |-> trace[j].op]
    IN SelectSeq(ops, LAMBDA op : op # "stat")

\* Whether the latest call called op, and what op returned to it.
WasCalled(op) == \E j \in 1..Len(trace) : trace[j].op = op
ErrOf(op) == trace[CHOOSE j \in 1..Len(trace) : trace[j].op = op].err

\* C29 (wallpaper handler short-circuits on failure): a call of the handler
\* calls the sizer, then the generator if and only if os.Stat has reported
\* that the image does not exist, then the executor, in that order; when the
\* sizer fails it returns a "desktop size" error and has called neither the
\* generator nor the executor, and when the generator fails it returns a
\* "generate wallpaper" error and has not called the executor.
C29_ShortCircuit ==
    (pc = "wallpaper" /\ ret.fn = "handler") =>
        /\ Collaborators \in { <<"sizer">>, <<"sizer", "generator">>,
                               <<"sizer", "exec">>, <<"sizer", "generator", "exec">> }
        /\ ~ErrOf("sizer").ok =>
               /\ Collaborators = <<"sizer">>
               /\ ret.err = Err(<<"desktop size: ">> \o ErrOf("sizer").msg)
        /\ ErrOf("sizer").ok =>
               /\ WasCalled("stat")
               /\ WasCalled("generator") <=> ErrOf("stat") = StatNotExist
        /\ (WasCalled("generator") /\ ~ErrOf("generator").ok) =>
               /\ Collaborators = <<"sizer", "generator">>
               /\ ret.err = Err(<<"generate wallpaper: ">> \o ErrOf("generator").msg)
        /\ (WasCalled("generator") /\ ErrOf("generator").ok) => WasCalled("exec")
        /\ (ErrOf("sizer").ok /\ ~WasCalled("generator")) => WasCalled("exec")

\* The generator has failed in a call made when another image was already
\* in the work directory: the handler returned its error without calling the
\* executor.
C29_Witness ==
    /\ pc = "wallpaper" /\ ret.fn = "handler"
    /\ files # {}
    /\ Collaborators = <<"sizer", "generator">>
    /\ ret.err = Err(<<"generate wallpaper: ", "bad generator">>)

\* C30 (executor failures are reported with the executor's error), as
\* claimed: when the executor returns an error, DesktopSize and the wallpaper
\* handler (for the script that sets the wallpaper) return an error whose
\* message is "exec: " followed by the message of that error, whatever bytes
\* the executor returned.
C30_ExecErrorReported ==
    (pc = "wallpaper" /\ WasCalled("exec") /\ ~ErrOf("exec").ok) =>
        ret.err = Err(<<"exec: ">> \o ErrOf("exec").msg)

\* Whether a call that called tr has called op, and the path it called op
\* for.
CalledIn(tr, op) == \E j \in 1..Len(tr) : tr[j].op = op
PathIn(tr, op) == tr[CHOOSE j \in 1..Len(tr) : tr[j].op = op].path

\* C31 (wallpaper image cache): in every call of the handler that gets past
\* the sizer, the generator is called only if no file was at the path of the
\* call's (width, height, stepIndex, stepCount); if a file was there the
\* generator is not called and the file stays; no call removes a file; the
\* generator and the executor are given that same path; and a call that
\* returns nil has called the executor.
C31_ImageCache ==
    [][ (pc = "wallpaper" /\ ret'.fn = "handler") =>
            /\ files \subseteq files'
            /\ CalledIn(trace', "generator") => PathIn(trace', "generator") \notin files
            /\ CalledIn(trace', "stat") =>
                   LET imgpath == PathIn(trace', "stat")
                   IN /\ CalledIn(trace', "generator") =>
                             PathIn(trace', "generator") = imgpath
                      /\ CalledIn(trace', "exec") => PathIn(trace', "exec") = imgpath
                      /\ imgpath \in files =>
                             (~CalledIn(trace', "generator") /\ imgpath \in files')
            /\ ret'.err.ok => CalledIn(trace', "exec")
      ]_vars

\* A call has found the image of its key among two files or more of the work
\* directory: it has called the sizer and the executor only, and returned
\* nil.
C31_Witness ==
    /\ pc = "wallpaper" /\ ret.fn = "handler" /\ ret.err.ok
    /\ Cardinality(files) >= 2
    /\ Collaborators = <<"sizer", "exec">>
    /\ ErrOf("stat") = NilErr
    /\ PathIn(trace, "stat") \in files


\* A list of one colour with that colour given twice; any other list itself.
Twice(colors) == IF Len(colors) = 1 THEN <<colors[1], colors[1]>> ELSE colors

\* The arguments the claim names: a colour list that is empty or longer than
\* two, more than two times, or two times the first of which has the later
\* time of day.
Invalid(a) ==
    \/ Len(a.foregrounds) = 0 \/ Len(a.foregrounds) > 2
    \/ Len(a.backgrounds) = 0 \/ Len(a.backgrounds) > 2
    \/ Len(a.times) > 2
    \/ Len(a.times) = 2 /\ Clock(a.times[1]) > Clock(a.times[2])

\* C32 (wallpaper generator validation): once NewWallpaperGenerator has
\* returned, it has returned an error and the nil generator if a colour list
\* was empty or longer than two, if more than two times were given, or if the
\* first of two times has the later time of day; it has returned a generator
\* and no error for all other arguments; and what it has returned is what it
\* returns for the same arguments with every single colour given twice.
C32_GeneratorValidation ==
    built # <<>> =>
        LET r == built[1]
        IN /\ Invalid(genArgs) => (~r.err.ok /\ r.gen = NilGenerator)
           /\ ~Invalid(genArgs) => (r.err.ok /\ r.gen # NilGenerator)
           /\ r = NewWallpaperGenerator(genArgs.times, Twice(genArgs.foregrounds),
                                        Twice(genArgs.backgrounds))

\* Reached: one foreground colour and two times, the first earlier as an
\* instant and later as a time of day, have been refused.
C32_Witness ==
    /\ pc = "generator" /\ built # <<>>
    /\ Len(genArgs.foregrounds) = 1 /\ Len(genArgs.backgrounds) = 2
    /\ Len(genArgs.times) = 2
    /\ After(genArgs.times[2], genArgs.times[1])
    /\ built[1].err = Err(<<"times are out of order">>)
    /\ built[1].gen = NilGenerator

====
